---- MODULE Spec2Model ----
(***************************************************************************)
(* A model of lib/connect-dynamodb.js: the DynamoDBStore session store.    *)
(*                                                                         *)
(* JavaScript values are tagged records, text is a sequence of tokens (so  *)
(* that string concatenation, JSON.stringify and JSON.parse are computed   *)
(* and can fail), a DynamoDB item is a record whose fields are the         *)
(* attributes that are present, and the table is a function from keys to   *)
(* items.  Every store call is kept in the history `calls` with the        *)
(* backend requests it issued and the callback deliveries it made.         *)
(***************************************************************************)
EXTENDS Integers, Sequences, FiniteSets, TLC

(***************************************************************************)
(* Bounds of the model.                                                    *)
(***************************************************************************)
MaxCalls == 3
MaxPending == 1
MaxClock == 1

(***************************************************************************)
(* Program constants.                                                      *)
(***************************************************************************)
oneDayInMilliseconds == 86400000

(***************************************************************************)
(* JavaScript values.                                                      *)
(***************************************************************************)
Undefined == [k |-> "undefined"]
Null == [k |-> "null"]
NaN == [k |-> "NaN"]
Num(n) == [k |-> "number", n |-> n]
Str(s) == [k |-> "string", s |-> s]
\* a string given by its characters.  A character is a string of length 1, or,
\* when no string of this module can hold it, the name of its code point, as
\* in "U+2003"; StrOfChars is the form of the strings that hold such a
\* character, Str of all the others
StrOfChars(cs) == [k |-> "string", c |-> cs]
Bool(b) == [k |-> "boolean", b |-> b]
Arr(a) == [k |-> "array", a |-> a]
Err(s) == [k |-> "error", s |-> s]

\* the abrupt completion of an expression that throws the error named s
Throw(s) == [k |-> "throw", s |-> s]
IsThrow(x) == "k" \in DOMAIN x /\ x.k = "throw"

Least(S) == CHOOSE x \in S : \A y \in S : x <= y
Greatest(S) == CHOOSE x \in S : \A y \in S : x >= y

\* the characters of a string
Chars(s) == [i \in 1..Len(s) |-> SubSeq(s, i, i)]
\* the characters of a string value
CharsOf(v) == IF "c" \in DOMAIN v THEN v.c ELSE Chars(v.s)

\* the decimal digits
Digit ==
    [c \in {"0", "1", "2", "3", "4", "5", "6", "7", "8", "9"} |->
        CASE c = "0" -> 0 [] c = "1" -> 1 [] c = "2" -> 2 [] c = "3" -> 3
          [] c = "4" -> 4 [] c = "5" -> 5 [] c = "6" -> 6 [] c = "7" -> 7
          [] c = "8" -> 8 [] c = "9" -> 9]

IsDigits(cs) == \A i \in 1..Len(cs) : cs[i] \in DOMAIN Digit
DigitsOf(cs) == [i \in 1..Len(cs) |-> Digit[cs[i]]]

\* a digit sequence without its leading, or its trailing, zeros
NoLeadingZeros(d) ==
    LET nz == {i \in 1..Len(d) : d[i] # 0} IN
    IF nz = {} THEN <<>> ELSE SubSeq(d, Least(nz), Len(d))
NoTrailingZeros(d) ==
    LET nz == {i \in 1..Len(d) : d[i] # 0} IN
    IF nz = {} THEN <<>> ELSE SubSeq(d, 1, Greatest(nz))

\* a < b for the naturals two digit sequences without leading zeros write
DigitsLess(a, b) ==
    \/ Len(a) < Len(b)
    \/ /\ Len(a) = Len(b)
       /\ \E i \in 1..Len(a) : a[i] < b[i] /\ \A j \in 1..(i - 1) : a[j] = b[j]

RECURSIVE NatDigits(_)
\* the digits of a natural number, none for 0
NatDigits(n) == IF n = 0 THEN <<>> ELSE Append(NatDigits(n \div 10), n % 10)

RECURSIVE DigitsValue(_)
\* the natural number a short digit sequence writes
DigitsValue(d) ==
    IF d = <<>> THEN 0 ELSE 10 * DigitsValue(SubSeq(d, 1, Len(d) - 1)) + d[Len(d)]

\* a property key that is an array index: a canonical numeric string up to
\* 2^32 - 2
IsArrayIndex(key) ==
    LET cs == Chars(key) IN
    /\ cs # <<>>
    /\ IsDigits(cs)
    /\ Len(cs) = 1 \/ cs[1] # "0"
    /\ ~DigitsLess(<<4, 2, 9, 4, 9, 6, 7, 2, 9, 4>>, DigitsOf(cs))

\* obj[key] = v on the own properties f of an object: a key that is there
\* keeps its place and takes the new value; a new array index goes among the
\* array indices, which come first in ascending order; any other new key
\* goes last
Assign(f, key, v) ==
    IF \E n \in 1..Len(f) : f[n][1] = key
    THEN [n \in 1..Len(f) |-> IF f[n][1] = key THEN <<key, v>> ELSE f[n]]
    ELSE IF IsArrayIndex(key)
    THEN LET c == Cardinality({n \in 1..Len(f) :
                      /\ IsArrayIndex(f[n][1])
                      /\ DigitsLess(DigitsOf(Chars(f[n][1])), DigitsOf(Chars(key)))})
         IN SubSeq(f, 1, c) \o <<<<key, v>>>> \o SubSeq(f, c + 1, Len(f))
    ELSE Append(f, <<key, v>>)

RECURSIVE OwnProperties(_)
\* the own properties of the object a list of key: value pairs writes
OwnProperties(f) ==
    IF f = <<>> THEN <<>>
    ELSE Assign(OwnProperties(SubSeq(f, 1, Len(f) - 1)), f[Len(f)][1], f[Len(f)][2])

\* the object {key: value, ..}
Obj(f) == [k |-> "object", f |-> OwnProperties(f)]

\* typeof v === 'number' (NaN is a number)
IsNumber(v) == v.k \in {"number", "NaN"}

\* a + b on numbers
Plus(a, b) == IF a.k = "number" /\ b.k = "number" THEN Num(a.n + b.n) ELSE NaN

RECURSIVE Lookup(_, _)
\* the value of the first field named key in a field list, undefined if none
Lookup(f, key) ==
    IF f = <<>> THEN Undefined
    ELSE IF Head(f)[1] = key THEN Head(f)[2]
    ELSE Lookup(Tail(f), key)

\* v.key: a TypeError is thrown when v is undefined or null, a primitive has
\* no such property
Prop(v, key) ==
    IF v.k = "throw" THEN v
    ELSE IF v.k \in {"undefined", "null"} THEN Throw("TypeError")
    ELSE IF v.k = "object" THEN Lookup(v.f, key)
    ELSE Undefined

(***************************************************************************)
(* Numbers as ToNumber gives them: not a number, an infinity, or a decimal *)
(* with a sign, integer digits I and fraction digits F.                    *)
(***************************************************************************)
DecNaN == [kind |-> "nan"]
DecInf(neg) == [kind |-> "inf", neg |-> neg]
Dec(neg, I, F) ==
    [kind |-> "fin", neg |-> neg, I |-> NoLeadingZeros(I), F |-> NoTrailingZeros(F)]
DecOfInt(n) ==
    IF n < 0 THEN Dec(TRUE, NatDigits(0 - n), <<>>) ELSE Dec(FALSE, NatDigits(n), <<>>)

\* the decimal with the digits D, p of them before the point.  A value of
\* more than 12 integer digits is above every time of the model and compares
\* like an infinity; one below 10^-330 is rounded to 0, as a double is
Scaled(neg, D, p) ==
    LET d == NoLeadingZeros(D)
        q == p - (Len(D) - Len(d))
    IN IF d = <<>> THEN Dec(neg, <<>>, <<>>)
       ELSE IF q > 12 THEN DecInf(neg)
       ELSE IF q < 0 - 330 THEN Dec(neg, <<>>, <<>>)
       ELSE IF q >= Len(d) THEN Dec(neg, d \o [i \in 1..(q - Len(d)) |-> 0], <<>>)
       ELSE IF q > 0 THEN Dec(neg, SubSeq(d, 1, q), SubSeq(d, q + 1, Len(d)))
       ELSE Dec(neg, <<>>, [i \in 1..(0 - q) |-> 0] \o d)

\* StrUnsignedDecimalLiteral: Infinity, or digits with an optional point and
\* an optional exponent part
UnsignedDecimal(neg, cs) ==
    LET es == {i \in 1..Len(cs) : cs[i] \in {"e", "E"}}
        mant == IF es = {} THEN cs ELSE SubSeq(cs, 1, Least(es) - 1)
        ex == IF es = {} THEN <<>> ELSE SubSeq(cs, Least(es) + 1, Len(cs))
        exNeg == ex # <<>> /\ ex[1] = "-"
        exDigits == IF ex # <<>> /\ ex[1] \in {"+", "-"} THEN Tail(ex) ELSE ex
        dots == {i \in 1..Len(mant) : mant[i] = "."}
        intPart == IF dots = {} THEN mant ELSE SubSeq(mant, 1, Least(dots) - 1)
        fracPart == IF dots = {} THEN <<>> ELSE SubSeq(mant, Least(dots) + 1, Len(mant))
    IN IF cs = Chars("Infinity") THEN DecInf(neg)
       ELSE IF \/ ~IsDigits(intPart) \/ ~IsDigits(fracPart)
               \/ (intPart = <<>> /\ fracPart = <<>>)
               \/ (es # {} /\ (exDigits = <<>> \/ ~IsDigits(exDigits)))
       THEN DecNaN
       ELSE LET D == DigitsOf(intPart) \o DigitsOf(fracPart)
                e == NoLeadingZeros(DigitsOf(exDigits))
            IN IF Len(e) > 9
               THEN IF NoLeadingZeros(D) = <<>> \/ exNeg THEN Dec(neg, <<>>, <<>>)
                    ELSE DecInf(neg)
               ELSE Scaled(neg, D, Len(intPart) + (IF exNeg THEN 0 - DigitsValue(e)
                                                   ELSE DigitsValue(e)))

\* the digits of the hexadecimal, octal and binary integer literals
RadixDigit ==
    [c \in DOMAIN Digit \cup {"a", "b", "c", "d", "e", "f", "A", "B", "C", "D", "E", "F"} |->
        CASE c \in DOMAIN Digit -> Digit[c]
          [] c \in {"a", "A"} -> 10 [] c \in {"b", "B"} -> 11 [] c \in {"c", "C"} -> 12
          [] c \in {"d", "D"} -> 13 [] c \in {"e", "E"} -> 14 [] c \in {"f", "F"} -> 15]

\* the base of the literal 0x.., 0o.. or 0b.., 0 when cs does not begin so
RadixOf(cs) ==
    IF Len(cs) < 2 \/ cs[1] # "0" THEN 0
    ELSE CASE cs[2] \in {"x", "X"} -> 16
           [] cs[2] \in {"o", "O"} -> 8
           [] cs[2] \in {"b", "B"} -> 2
           [] OTHER -> 0

RECURSIVE RadixValue(_, _, _)
\* the value of the digits ds in the base after the digits that gave acc, -1
\* once it is above 2^31 - 1
RadixValue(ds, base, acc) ==
    IF ds = <<>> \/ acc = -1 THEN acc
    ELSE IF acc > (2147483647 - RadixDigit[Head(ds)]) \div base THEN -1
    ELSE RadixValue(Tail(ds), base, acc * base + RadixDigit[Head(ds)])

\* a literal 0x.., 0o.. or 0b..: it takes no sign and needs a digit
RadixNumber(cs) ==
    LET ds == SubSeq(cs, 3, Len(cs)) IN
    IF ds = <<>> \/ \E i \in 1..Len(ds) :
                       ds[i] \notin DOMAIN RadixDigit \/ RadixDigit[ds[i]] >= RadixOf(cs)
    THEN DecNaN
    ELSE LET n == RadixValue(ds, RadixOf(cs), 0) IN
         IF n = -1 THEN DecInf(FALSE) ELSE DecOfInt(n)

\* StrWhiteSpaceChar, the white space and line terminators that Number(s)
\* strips: U+0020, U+0009, U+000A, U+000D, U+000C and U+000B as the
\* characters themselves, the others by name
WhiteSpace ==
    {" ", "\t", "\n", "\r", "\f", "",
     "U+00A0", "U+1680", "U+2000", "U+2001", "U+2002", "U+2003", "U+2004", "U+2005",
     "U+2006", "U+2007", "U+2008", "U+2009", "U+200A", "U+2028", "U+2029", "U+202F",
     "U+205F", "U+3000", "U+FEFF"}

Trim(cs) ==
    LET keep == {i \in 1..Len(cs) : cs[i] \notin WhiteSpace} IN
    IF keep = {} THEN <<>> ELSE SubSeq(cs, Least(keep), Greatest(keep))

\* Number(s) for the string of the characters chars: white space around the
\* literal is dropped, the empty text is 0, a text that is no numeric literal
\* is NaN
CharsToNumber(chars) ==
    LET cs == Trim(chars) IN
    IF cs = <<>> THEN Dec(FALSE, <<>>, <<>>)
    ELSE IF RadixOf(cs) # 0 THEN RadixNumber(cs)
    ELSE IF cs[1] \in {"+", "-"} THEN UnsignedDecimal(cs[1] = "-", Tail(cs))
    ELSE UnsignedDecimal(FALSE, cs)

\* Number(s) for a string
StringToNumber(s) == CharsToNumber(Chars(s))

RECURSIVE NatString(_)
\* the decimal text of a natural number
NatString(n) ==
    LET c == <<"0", "1", "2", "3", "4", "5", "6", "7", "8", "9">> IN
    IF n < 10 THEN c[n + 1] ELSE NatString(n \div 10) \o c[(n % 10) + 1]

RECURSIVE StringOf(_)
RECURSIVE Join(_)
\* String(v), as its characters
StringOf(v) ==
    CASE v.k = "number" ->
             Chars(IF v.n < 0 THEN "-" \o NatString(0 - v.n) ELSE NatString(v.n))
      [] v.k = "NaN" -> Chars("NaN")
      [] v.k = "string" -> CharsOf(v)
      [] v.k = "boolean" -> Chars(IF v.b THEN "true" ELSE "false")
      [] v.k = "null" -> Chars("null")
      [] v.k = "undefined" -> Chars("undefined")
      [] v.k = "array" -> Join(v.a)
      [] OTHER -> Chars("[object Object]")

\* Array.prototype.join: null and undefined elements are empty
Join(a) ==
    IF a = <<>> THEN <<>>
    ELSE (IF Len(a) = 1 THEN <<>> ELSE Join(SubSeq(a, 1, Len(a) - 1)) \o <<",">>)
         \o (IF a[Len(a)].k \in {"null", "undefined"} THEN <<>> ELSE StringOf(a[Len(a)]))

RECURSIVE Log2(_)
\* the exponent of the double n, n >= 1
Log2(n) == IF n < 2 THEN 0 ELSE 1 + Log2(n \div 2)

RECURSIVE Pow2(_)
Pow2(e) == IF e = 0 THEN 1 ELSE 2 * Pow2(e - 1)

\* half of the fraction 0.f whose last digit is odd
Halve(f) ==
    <<>> \o [i \in 1..(Len(f) + 1) |->
        ((IF i > 1 THEN 10 * (f[i - 1] % 2) ELSE 0) + (IF i <= Len(f) THEN f[i] ELSE 0)) \div 2]

RECURSIVE HalvedTimes(_, _)
\* 0.f halved n times
HalvedTimes(f, n) ==
    IF n = 0 THEN f
    ELSE IF n = 1 THEN Halve(f)
    ELSE CHOOSE h \in {HalvedTimes(p, n - (n \div 2)) : p \in {HalvedTimes(f, n \div 2)}} : TRUE

\* the fraction digits of 2^-e, e >= 1
HalfPow(e) == HalvedTimes(<<5>>, e - 1)

\* the fraction digits of 2^-1075, half the least double: a decimal at or
\* below it rounds to 0
MinHalf == HalfPow(1075)

\* half the distance from the double n to the next double above, n >= 0,
\* and to the next double below, n >= 1
HalfGapAbove(n) == IF n = 0 THEN MinHalf ELSE HalfPow(53 - Log2(n))
HalfGapBelow(n) == IF n = Pow2(Log2(n)) THEN HalfPow(54 - Log2(n)) ELSE HalfPow(53 - Log2(n))

FracAt(f, i) == IF i <= Len(f) THEN f[i] ELSE 0
\* 0.f <= 0.g
FracLeq(f, g) ==
    LET m == IF Len(f) > Len(g) THEN Len(f) ELSE Len(g)
        d == {i \in 1..m : FracAt(f, i) # FracAt(g, i)}
    IN d = {} \/ FracAt(f, Least(d)) < FracAt(g, Least(d))

\* 1 - 0.f for a fraction 0.f above 0
Complement(f) == [i \in 1..Len(f) |-> IF i = Len(f) THEN 10 - f[i] ELSE 9 - f[i]]

\* v <= now for the double nearest to v and an integer now: v rounds to now
\* when it is within half a gap of now, a tie included
LessEq(v, now) ==
    CASE v.kind = "nan" -> FALSE
      [] v.kind = "inf" -> v.neg
      [] OTHER ->
           IF ~v.neg \/ (v.I = <<>> /\ v.F = <<>>)
           THEN /\ now >= 0
                /\ \/ DigitsLess(v.I, NatDigits(now))
                   \/ v.I = NatDigits(now) /\ FracLeq(v.F, HalfGapAbove(now))
           ELSE \/ now >= 0
                \/ ~DigitsLess(v.I, NatDigits(0 - now))
                \/ /\ v.I = NatDigits(0 - now - 1)
                   /\ v.F # <<>>
                   /\ FracLeq(Complement(v.F), HalfGapBelow(0 - now))

(***************************************************************************)
(* Text: a sequence of tokens.                                             *)
(***************************************************************************)
Tok(t, s, n) == [t |-> t, s |-> s, n |-> n]
Punct(s) == Tok("punct", s, 0)
StrTok(s) == Tok("str", s, 0)
NumTok(n) == Tok("num", "", n)
LitTok(s) == Tok("lit", s, 0)
\* the token of a string value, and the string value of a token; the key of
\* an object member is a string that a literal writes
TokOfStr(v) == IF "c" \in DOMAIN v THEN [t |-> "str", c |-> v.c, n |-> 0] ELSE StrTok(v.s)
StrOfTok(h) == IF "c" \in DOMAIN h THEN StrOfChars(h.c) ELSE Str(h.s)

RECURSIVE Stringify(_)
RECURSIVE StringifyMembers(_, _)
RECURSIVE StringifyElements(_, _)
\* JSON.stringify(v): NaN becomes null, undefined-valued fields are dropped,
\* undefined elements of an array become null
Stringify(v) ==
    CASE v.k = "null" -> <<LitTok("null")>>
      [] v.k = "NaN" -> <<LitTok("null")>>
      [] v.k = "number" -> <<NumTok(v.n)>>
      [] v.k = "string" -> <<TokOfStr(v)>>
      [] v.k = "boolean" -> <<LitTok(IF v.b THEN "true" ELSE "false")>>
      [] v.k = "array" -> <<Punct("[")>> \o StringifyElements(v.a, TRUE) \o <<Punct("]")>>
      [] v.k = "object" -> <<Punct("{")>> \o StringifyMembers(v.f, TRUE) \o <<Punct("}")>>
      [] OTHER -> <<>>

StringifyMembers(f, first) ==
    IF f = <<>> THEN <<>>
    ELSE IF Head(f)[2].k = "undefined" THEN StringifyMembers(Tail(f), first)
    ELSE (IF first THEN <<>> ELSE <<Punct(",")>>)
         \o <<StrTok(Head(f)[1]), Punct(":")>> \o Stringify(Head(f)[2])
         \o StringifyMembers(Tail(f), FALSE)

StringifyElements(a, first) ==
    IF a = <<>> THEN <<>>
    ELSE (IF first THEN <<>> ELSE <<Punct(",")>>)
         \o (IF Head(a).k = "undefined" THEN <<LitTok("null")>> ELSE Stringify(Head(a)))
         \o StringifyElements(Tail(a), FALSE)

\* Number.prototype.toString()
NumberToString(v) == IF v.k = "NaN" THEN <<LitTok("NaN")>> ELSE <<NumTok(v.n)>>

ParseFail == [ok |-> FALSE, v |-> Undefined, rest |-> <<>>]
ParseOk(v, rest) == [ok |-> TRUE, v |-> v, rest |-> rest]

RECURSIVE ParseValue(_)
RECURSIVE ParseMembers(_, _)
RECURSIVE ParseElements(_, _)
\* one JSON value at the head of toks
ParseValue(toks) ==
    IF toks = <<>> THEN ParseFail
    ELSE LET h == Head(toks) IN
         CASE h.t = "lit" /\ h.s = "null" -> ParseOk(Null, Tail(toks))
           [] h.t = "lit" /\ h.s = "true" -> ParseOk(Bool(TRUE), Tail(toks))
           [] h.t = "lit" /\ h.s = "false" -> ParseOk(Bool(FALSE), Tail(toks))
           [] h.t = "num" -> ParseOk(Num(h.n), Tail(toks))
           [] h.t = "str" -> ParseOk(StrOfTok(h), Tail(toks))
           [] h.t = "punct" /\ h.s = "{" ->
                IF Len(toks) >= 2 /\ toks[2] = Punct("}")
                THEN ParseOk(Obj(<<>>), Tail(Tail(toks)))
                ELSE ParseMembers(Tail(toks), <<>>)
           [] h.t = "punct" /\ h.s = "[" ->
                IF Len(toks) >= 2 /\ toks[2] = Punct("]")
                THEN ParseOk(Arr(<<>>), Tail(Tail(toks)))
                ELSE ParseElements(Tail(toks), <<>>)
           [] OTHER -> ParseFail

\* members of an object after "{" or ",": key ":" value, then "," or "}"
ParseMembers(toks, acc) ==
    IF Len(toks) < 3 \/ toks[1].t # "str" \/ toks[2] # Punct(":") THEN ParseFail
    ELSE LET r == ParseValue(SubSeq(toks, 3, Len(toks))) IN
         IF ~r.ok \/ r.rest = <<>> THEN ParseFail
         ELSE LET acc2 == Assign(acc, toks[1].s, r.v) IN
              IF Head(r.rest) = Punct("}") THEN ParseOk(Obj(acc2), Tail(r.rest))
              ELSE IF Head(r.rest) = Punct(",") THEN ParseMembers(Tail(r.rest), acc2)
              ELSE ParseFail

\* elements of an array after "[" or ",": a value, then "," or "]"
ParseElements(toks, acc) ==
    LET r == ParseValue(toks) IN
    IF ~r.ok \/ r.rest = <<>> THEN ParseFail
    ELSE IF Head(r.rest) = Punct("]") THEN ParseOk(Arr(Append(acc, r.v)), Tail(r.rest))
    ELSE IF Head(r.rest) = Punct(",") THEN ParseElements(Tail(r.rest), Append(acc, r.v))
    ELSE ParseFail

\* JSON.parse(text): the value, or the SyntaxError it throws
JSONParse(text) ==
    LET r == ParseValue(text) IN
    IF r.ok /\ r.rest = <<>> THEN [threw |-> FALSE, v |-> r.v]
    ELSE [threw |-> TRUE, v |-> Err("SyntaxError")]

(***************************************************************************)
(* Configuration of the store and the inputs of the model.                 *)
(***************************************************************************)
\* this.prefix, the default of options.prefix
prefix == <<"sess:">>

\* session ids the callers use
Sids == {<<"a">>, <<"b">>}

\* keys of the table the model follows: the prefixed and the raw session ids
Keys == {prefix \o s : s \in Sids} \cup Sids

IsPrefixOf(p, key) == Len(key) >= Len(p) /\ SubSeq(key, 1, Len(p)) = p

Cookie(f) == <<"cookie", Obj(f)>>
PNoAge == Obj(<<Cookie(<<>>), <<"user", Str("alice")>>>>)
PAge == Obj(<<Cookie(<<<<"maxAge", Num(1)>>>>), <<"user", Str("bob")>>>>)
PNaN == Obj(<<Cookie(<<<<"maxAge", NaN>>>>)>>)

\* session payloads the callers pass
Payloads == {PNoAge, PAge, PNaN}

\* an error of the table client
BackendError == Err("BackendError")

(***************************************************************************)
(* The table client.  An attribute value is {S: text} or {N: text}.        *)
(***************************************************************************)
AttrS(x) == [S |-> x]
AttrN(x) == [N |-> x]

\* result.Item of getItem: the item at the key, undefined when there is none
getItem(tbl, params) == tbl[params.Key]

\* putItem that writes only when the key has no item
putItemIfAbsent(tbl, params) ==
    IF tbl[params.Item.id.S] = Undefined
    THEN [tbl EXCEPT ![params.Item.id.S] = params.Item]
    ELSE tbl

\* putItem replaces the whole item at the key Item.id.S
putItem(tbl, params) == [tbl EXCEPT ![params.Item.id.S] = params.Item]

\* updateItem "SET #attrName = :attrValue": sets one attribute, creating the
\* item with its key when there is none
updateItem(tbl, params) ==
    LET old == tbl[params.Key]
        base == IF old = Undefined THEN [id |-> AttrS(params.Key)] ELSE old
    IN [tbl EXCEPT ![params.Key] =
           [a \in DOMAIN base \cup {params.AttrName} |->
               IF a = params.AttrName THEN params.AttrValue ELSE base[a]]]

\* deleteItem removes the item at the key; a missing item is no error
deleteItem(tbl, params) == [tbl EXCEPT ![params.Key] = Undefined]

(***************************************************************************)
(* State.                                                                  *)
(***************************************************************************)
VARIABLES
    clock,   \* +new Date
    table,   \* the table this.table of the backend: key -> item or undefined
    calls,   \* every store call so far, in the order of the calls
    store,   \* the fields of the store that the constructor sets
    boot     \* the describeTable / createTable requests of the constructor

vars == <<clock, table, calls, store, boot>>

NoReq == [kind |-> "none"]
Delivery(err, res) == [err |-> err, res |-> res]

\* the calls that have completed: no request pending
Completed == {k \in 1..Len(calls) : calls[k].req = NoReq}

RECURSIVE Completions(_)
\* the number of backend requests of the calls cs that have completed
Completions(cs) == IF cs = <<>> THEN 0 ELSE Len(Head(cs).outcomes) + Completions(Tail(cs))

\* a store call that has issued its first backend request.  req is the request
\* in flight, issued the requests so far, outcomes the errors (or null) they
\* completed with, at the position of each completion among all completions,
\* item the result.Item that get read, cb the deliveries to the caller's
\* callback, throws whether that callback raises when it is invoked, after
\* the calls that had completed when it was made
NewCall(op, sid, sess, hasFn, req) ==
    [op |-> op, sid |-> sid, sess |-> sess, hasFn |-> hasFn, now |-> clock,
     req |-> req, issued |-> <<req>>, outcomes |-> <<>>, at |-> <<>>,
     item |-> Null, cb |-> <<>>, throws |-> FALSE, after |-> Completed,
     raised |-> Null]

\* a store call that threw e before it issued a request: it has returned, no
\* request is in flight and fn is never invoked
ThrownCall(op, sid, sess, hasFn, e) ==
    [NewCall(op, sid, sess, hasFn, NoReq) EXCEPT !.issued = <<>>, !.raised = e]

\* expires of set and touch: now + maxAge for a numeric maxAge, else one day;
\* sess.cookie.maxAge throws when sess or sess.cookie is undefined or null
Expires(sess, now) ==
    LET maxAge == Prop(Prop(sess, "cookie"), "maxAge") IN
    IF IsThrow(maxAge) THEN maxAge
    ELSE IF IsNumber(maxAge) THEN Plus(Num(now), maxAge)
    ELSE Plus(Num(now), Num(oneDayInMilliseconds))

\* GetParams with the key left unprefixed
GetParamsRawKey(sid) == [kind |-> "getItem", Key |-> sid, ConsistentRead |-> TRUE]

\* the getItem request of get(sid)
GetParams(sid) == [kind |-> "getItem", Key |-> prefix \o sid, ConsistentRead |-> TRUE]

\* SetParams without the type attribute
SetParamsNoType(sid, sess, now) ==
    IF IsThrow(Expires(sess, now)) THEN Expires(sess, now) ELSE
    [kind |-> "putItem",
     Item |-> [id |-> AttrS(prefix \o sid),
               expires |-> AttrN(Stringify(Expires(sess, now))),
               sess |-> AttrS(Stringify(sess))]]

\* the putItem request of set(sid, sess), or what computing expires throws
SetParams(sid, sess, now) ==
    IF IsThrow(Expires(sess, now)) THEN Expires(sess, now) ELSE
    [kind |-> "putItem",
     Item |-> [id |-> AttrS(prefix \o sid),
               expires |-> AttrN(Stringify(Expires(sess, now))),
               type |-> AttrS(<<"connect-session">>),
               sess |-> AttrS(Stringify(sess))]]

\* TouchParams as the putItem of set
TouchParamsAsSet(sid, sess, now) == SetParams(sid, sess, now)

\* TouchParams as a putItem of the key and the new expires
TouchParamsPut(sid, sess, now) ==
    IF IsThrow(Expires(sess, now)) THEN Expires(sess, now) ELSE
    [kind |-> "putItem",
     Item |-> [id |-> AttrS(prefix \o sid),
               expires |-> AttrN(NumberToString(Expires(sess, now)))]]

\* the updateItem request of touch(sid, sess), or what computing expires
\* throws
TouchParams(sid, sess, now) ==
    IF IsThrow(Expires(sess, now)) THEN Expires(sess, now) ELSE
    [kind |-> "updateItem", Key |-> prefix \o sid, AttrName |-> "expires",
     AttrValue |-> AttrN(NumberToString(Expires(sess, now)))]

\* the deleteItem request of destroy(sid): the key is sid as passed
DestroyParams(sid) == [kind |-> "deleteItem", Key |-> sid]

\* the key a request addresses
KeyOf(req) == IF req.kind = "putItem" THEN req.Item.id.S ELSE req.Key

(***************************************************************************)
(* The completion handler of get's getItem.                                *)
(***************************************************************************)
\* item.name, undefined when the item has no such attribute
Attr(item, name) == IF name \in DOMAIN item THEN item[name] ELSE Undefined

\* an attribute value as the table client returns it, {S: ..} or {N: ..}: an
\* object, as opposed to a plain JavaScript value
IsAttrObject(x) == "k" \notin DOMAIN x

\* ToBoolean(x)
Truthy(x) ==
    IF IsAttrObject(x) THEN TRUE
    ELSE CASE x.k = "number" -> x.n # 0
           [] x.k = "string" -> CharsOf(x) # <<>>
           [] x.k = "boolean" -> x.b
           [] x.k \in {"object", "array", "error"} -> TRUE
           [] OTHER -> FALSE

\* ToNumber(x): an object converts to NaN, null to 0, a string by Number, an
\* array by the string it joins to
ToNumber(x) ==
    IF IsAttrObject(x) THEN DecNaN
    ELSE CASE x.k = "number" -> DecOfInt(x.n)
           [] x.k = "null" -> DecOfInt(0)
           [] x.k = "boolean" -> DecOfInt(IF x.b THEN 1 ELSE 0)
           [] x.k = "string" -> CharsToNumber(CharsOf(x))
           [] x.k = "array" -> CharsToNumber(StringOf(x))
           [] OTHER -> DecNaN

\* now >= x: x converts to a number, and no number is >= NaN
GreaterEq(now, x) == LessEq(ToNumber(x), now)

\* result.Item.expires && now >= result.Item.expires
ExpiredTest(item, now) ==
    Truthy(Attr(item, "expires")) /\ GreaterEq(now, Attr(item, "expires"))

\* (result.Item.sess || {S: null}).S, with null and undefined as the empty text
SessS(item) ==
    LET sess == Attr(item, "sess") IN
    IF Truthy(sess) /\ IsAttrObject(sess) /\ "S" \in DOMAIN sess THEN sess.S ELSE <<>>

\* GetHandler that deletes a record whose sess does not parse
GetHandlerDropsCorrupt(err, item, now) ==
    IF err # Null THEN [cb |-> <<Delivery(err, Undefined)>>, destroy |-> FALSE]
    ELSE IF item = Undefined THEN [cb |-> <<Delivery(Null, Null)>>, destroy |-> FALSE]
    ELSE IF ExpiredTest(item, now) THEN [cb |-> <<>>, destroy |-> TRUE]
    ELSE IF SessS(item) = <<>> THEN [cb |-> <<>>, destroy |-> TRUE]
    ELSE LET r == JSONParse(SessS(item)) IN
         IF r.threw THEN [cb |-> <<>>, destroy |-> TRUE]
         ELSE [cb |-> <<Delivery(Null, r.v)>>, destroy |-> FALSE]

\* GetHandler without the test for an empty sess
GetHandlerParsesEmpty(err, item, now) ==
    IF err # Null THEN [cb |-> <<Delivery(err, Undefined)>>, destroy |-> FALSE]
    ELSE IF item = Undefined THEN [cb |-> <<Delivery(Null, Null)>>, destroy |-> FALSE]
    ELSE IF ExpiredTest(item, now) THEN [cb |-> <<>>, destroy |-> TRUE]
    ELSE LET r == JSONParse(SessS(item)) IN
         IF r.threw THEN [cb |-> <<Delivery(r.v, Undefined)>>, destroy |-> FALSE]
         ELSE [cb |-> <<Delivery(Null, r.v)>>, destroy |-> FALSE]

\* GetHandler that reports a missing item as an error
GetHandlerMissingIsError(err, item, now) ==
    IF err # Null THEN [cb |-> <<Delivery(err, Undefined)>>, destroy |-> FALSE]
    ELSE IF item = Undefined
    THEN [cb |-> <<Delivery(Err("NotFound"), Undefined)>>, destroy |-> FALSE]
    ELSE IF ExpiredTest(item, now) THEN [cb |-> <<>>, destroy |-> TRUE]
    ELSE IF SessS(item) = <<>> THEN [cb |-> <<>>, destroy |-> TRUE]
    ELSE LET r == JSONParse(SessS(item)) IN
         IF r.threw THEN [cb |-> <<Delivery(r.v, Undefined)>>, destroy |-> FALSE]
         ELSE [cb |-> <<Delivery(Null, r.v)>>, destroy |-> FALSE]

\* what the handler does with (err, result.Item): the deliveries to fn and
\* whether it calls this.destroy(psid, ..)
GetHandler(err, item, now) ==
    IF err # Null THEN [cb |-> <<Delivery(err, Undefined)>>, destroy |-> FALSE]
    ELSE IF item = Undefined THEN [cb |-> <<Delivery(Null, Null)>>, destroy |-> FALSE]
    ELSE IF ExpiredTest(item, now) THEN [cb |-> <<>>, destroy |-> TRUE]
    ELSE IF SessS(item) = <<>> THEN [cb |-> <<>>, destroy |-> TRUE]
    ELSE LET r == JSONParse(SessS(item)) IN
         IF r.threw THEN [cb |-> <<Delivery(r.v, Undefined)>>, destroy |-> FALSE]
         ELSE [cb |-> <<Delivery(Null, r.v)>>, destroy |-> FALSE]

\* the handler with a callback that may raise: fn(null, ..) is invoked inside
\* the try, so what it raises is caught and passed to fn again; fn(err) of
\* the error branch and of the catch are outside it
GetHandlerWithCallback(err, item, now, throws) ==
    LET h == GetHandler(err, item, now) IN
    IF throws /\ err = Null /\ h.cb # <<>> /\ h.cb[1].err = Null
    THEN [h EXCEPT !.cb = Append(@, Delivery(Err("CallbackError"), Undefined))]
    ELSE h

(***************************************************************************)
(* The constructor.                                                        *)
(***************************************************************************)
\* values of options.reapInterval
ReapOptions == {0, 600000}

\* NewStore with this.reapInterval = options.reapInterval
NewStoreWithOption(optReapInterval) ==
    LET reapInterval == optReapInterval IN
    [optReapInterval |-> optReapInterval, reapInterval |-> reapInterval,
     timer |-> reapInterval > 0, reaps |-> 0, clears |-> 0]

\* the fields new DynamoDBStore(options) sets: reapInterval is 0 whatever the
\* options say, so that no interval timer is started; reaps and clears count
\* the calls of reap() and clearInterval()
NewStore(optReapInterval) ==
    LET reapInterval == 0 IN
    [optReapInterval |-> optReapInterval, reapInterval |-> reapInterval,
     timer |-> reapInterval > 0, reaps |-> 0, clears |-> 0]

\* the bootstrap when the constructor returns: describeTable is in flight
NewBoot == [pending |-> "describeTable", issued |-> <<"describeTable">>,
            outcomes |-> <<>>, logged |-> <<>>]

\* the bootstrap after describeTable has found the table
BootDone == [pending |-> "none", issued |-> <<"describeTable">>,
             outcomes |-> <<Null>>, logged |-> <<>>]

(***************************************************************************)
(* Initial state: the store is constructed on a table that is empty or     *)
(* holds items written by others, and describeTable has found the table.   *)
(***************************************************************************)
\* a record whose sess is not JSON, with an attribute the store never writes
MalformedItem(key) ==
    [id |-> AttrS(key), expires |-> AttrN(<<NumTok(oneDayInMilliseconds)>>),
     type |-> AttrS(<<"connect-session">>),
     sess |-> AttrS(<<Punct("{"), StrTok("user")>>), note |-> AttrS(<<"x">>)]

\* a record whose expires is a plain number, as a client that unwraps
\* attribute values returns it
PlainExpiresItem(key) ==
    [id |-> AttrS(key), expires |-> Num(1), type |-> AttrS(<<"connect-session">>),
     sess |-> AttrS(Stringify(PNoAge))]

\* an item of another kind that shares the table
OtherItem(key) == [id |-> AttrS(key), type |-> AttrS(<<"other">>)]

InitTables ==
    {[k \in Keys |-> IF k = prefix \o <<"a">> THEN x
                     ELSE IF k = <<"a">> THEN y ELSE Undefined] :
        x \in {Undefined, MalformedItem(prefix \o <<"a">>),
               PlainExpiresItem(prefix \o <<"a">>)},
        y \in {Undefined, OtherItem(<<"a">>)}}

Init ==
    /\ clock = 0
    /\ table \in InitTables
    /\ calls = <<>>
    /\ store = NewStore(0)
    /\ boot = BootDone

(***************************************************************************)
(* The calls of the store.                                                 *)
(***************************************************************************)
\* a further call can be made
CanCall ==
    /\ Len(calls) < MaxCalls
    /\ Len(calls) - Cardinality(Completed) < MaxPending

\* get(sid, fn) up to its return: the getItem request is in flight
GetCall(sid) == NewCall("get", sid, Undefined, TRUE, GetParams(sid))

\* set(sid, sess, fn) up to its return: the putItem request is in flight,
\* unless computing expires threw
SetCall(sid, sess) ==
    LET params == SetParams(sid, sess, clock) IN
    IF IsThrow(params) THEN ThrownCall("set", sid, sess, TRUE, Err(params.s))
    ELSE NewCall("set", sid, sess, TRUE, params)

\* touch(sid, sess, fn) up to its return: the updateItem request is in
\* flight, unless computing expires threw
TouchCall(sid, sess) ==
    LET params == TouchParams(sid, sess, clock) IN
    IF IsThrow(params) THEN ThrownCall("touch", sid, sess, TRUE, Err(params.s))
    ELSE NewCall("touch", sid, sess, TRUE, params)

\* destroy(sid, fn) up to its return: the deleteItem request is in flight
DestroyCall(sid, hasFn) == NewCall("destroy", sid, Undefined, hasFn, DestroyParams(sid))

\* the call c is made
Make(c) ==
    /\ calls' = Append(calls, c)
    /\ UNCHANGED <<clock, table, store, boot>>

\* DynamoDBStore.prototype.get(sid, fn)
Get(sid) ==
    /\ CanCall
    /\ Make(GetCall(sid))

\* DynamoDBStore.prototype.set(sid, sess, fn)
Set(sid, sess) ==
    /\ CanCall
    /\ Make(SetCall(sid, sess))

\* DynamoDBStore.prototype.touch(sid, sess, fn)
Touch(sid, sess) ==
    /\ CanCall
    /\ Make(TouchCall(sid, sess))

\* DynamoDBStore.prototype.destroy(sid, fn), fn optional
Destroy(sid, hasFn) ==
    /\ CanCall
    /\ Make(DestroyCall(sid, hasFn))

(***************************************************************************)
(* The completions of the backend requests, in any order.                  *)
(***************************************************************************)
Finish(i, err, cb) ==
    [calls EXCEPT ![i].req = NoReq, ![i].outcomes = Append(@, err),
                  ![i].at = Append(@, Completions(calls) + 1), ![i].cb = @ \o cb]

\* ClientResult with the error dropped
ClientResultNoError(err) == Delivery(Null, Obj(<<>>))

\* the (err, data) a table client passes to the callback of a write
ClientResult(err) == Delivery(err, IF err = Null THEN Obj(<<>>) ELSE Null)

\* getItem completes: the handler of get runs
GetItemDone(i, err) ==
    /\ calls[i].req.kind = "getItem"
    /\ LET item == IF err = Null THEN getItem(table, calls[i].req) ELSE Null
           h == GetHandlerWithCallback(err, item, calls[i].now, calls[i].throws)
           del == DestroyParams(calls[i].req.Key)
       IN calls' = IF h.destroy
                   THEN [calls EXCEPT ![i].req = del, ![i].issued = Append(@, del),
                                      ![i].outcomes = Append(@, err),
                                      ![i].at = Append(@, Completions(calls) + 1),
                                      ![i].item = item]
                   ELSE [Finish(i, err, h.cb) EXCEPT ![i].item = item]
    /\ UNCHANGED <<clock, table, store, boot>>

\* putItem completes: fn is the callback
PutItemDone(i, err) ==
    /\ calls[i].req.kind = "putItem"
    /\ table' = IF err = Null THEN putItem(table, calls[i].req) ELSE table
    /\ calls' = Finish(i, err, <<ClientResult(err)>>)
    /\ UNCHANGED <<clock, store, boot>>

\* updateItem completes: fn is the callback
UpdateItemDone(i, err) ==
    /\ calls[i].req.kind = "updateItem"
    /\ table' = IF err = Null THEN updateItem(table, calls[i].req) ELSE table
    /\ calls' = Finish(i, err, <<ClientResult(err)>>)
    /\ UNCHANGED <<clock, store, boot>>

\* DeleteItemDone that passes the error of get's delete on to fn
DeleteItemDoneSurfacesError(i, err) ==
    /\ calls[i].req.kind = "deleteItem"
    /\ table' = IF err = Null THEN deleteItem(table, calls[i].req) ELSE table
    /\ calls' = Finish(i, err, IF calls[i].op = "get" THEN <<Delivery(err, Null)>>
                               ELSE IF calls[i].hasFn THEN <<ClientResult(err)>>
                               ELSE <<>>)
    /\ UNCHANGED <<clock, store, boot>>

\* deleteItem completes: the callback is fn, or function () {} when destroy
\* got none, or get's function () { fn(null, null) }
DeleteItemDone(i, err) ==
    /\ calls[i].req.kind = "deleteItem"
    /\ table' = IF err = Null THEN deleteItem(table, calls[i].req) ELSE table
    /\ calls' = Finish(i, err, IF calls[i].op = "get" THEN <<Delivery(Null, Null)>>
                               ELSE IF calls[i].hasFn THEN <<ClientResult(err)>>
                               ELSE <<>>)
    /\ UNCHANGED <<clock, store, boot>>

\* time passes
Tick ==
    /\ clock < MaxClock
    /\ clock' = clock + 1
    /\ UNCHANGED <<table, calls, store, boot>>

Next ==
    \/ \E sid \in Sids : Get(sid)
    \/ \E sid \in Sids, sess \in Payloads : Set(sid, sess)
    \/ \E sid \in Sids, sess \in Payloads : Touch(sid, sess)
    \/ \E sid \in Sids, hasFn \in BOOLEAN : Destroy(sid, hasFn)
    \/ \E i \in 1..Len(calls), err \in {Null, BackendError} : GetItemDone(i, err)
    \/ \E i \in 1..Len(calls), err \in {Null, BackendError} : PutItemDone(i, err)
    \/ \E i \in 1..Len(calls), err \in {Null, BackendError} : UpdateItemDone(i, err)
    \/ \E i \in 1..Len(calls), err \in {Null, BackendError} : DeleteItemDone(i, err)
    \/ Tick

Spec == Init /\ [][Next]_vars

(***************************************************************************)
(* The store from its construction on: the bootstrap of the constructor,   *)
(* reap() and clearInterval(), next to the calls of the store.             *)
(***************************************************************************)
MaxBootCalls == 1
MaxMaintenance == 1

\* the state when new DynamoDBStore(options) returns
InitBoot ==
    /\ clock = 0
    /\ table \in InitTables
    /\ calls = <<>>
    /\ store \in {NewStore(o) : o \in ReapOptions}
    /\ boot = NewBoot

\* DescribeTableDone that creates the table whatever describeTable answered
DescribeTableDoneAlwaysCreates(err) ==
    /\ boot.pending = "describeTable"
    /\ boot' = [boot EXCEPT !.pending = "createTable",
                            !.issued = Append(@, "createTable"),
                            !.outcomes = Append(@, err)]
    /\ UNCHANGED <<clock, table, calls, store>>

\* describeTable completes: on an error the handler issues createTable
DescribeTableDone(err) ==
    /\ boot.pending = "describeTable"
    /\ boot' = IF err # Null
               THEN [boot EXCEPT !.pending = "createTable",
                                 !.issued = Append(@, "createTable"),
                                 !.outcomes = Append(@, err)]
               ELSE [boot EXCEPT !.pending = "none", !.outcomes = Append(@, err)]
    /\ UNCHANGED <<clock, table, calls, store>>

\* createTable completes: its callback is console.log
CreateTableDone(err) ==
    /\ boot.pending = "createTable"
    /\ boot' = [boot EXCEPT !.pending = "none", !.outcomes = Append(@, err),
                            !.logged = Append(@, ClientResult(err))]
    /\ UNCHANGED <<clock, table, calls, store>>

\* DynamoDBStore.prototype.reap(fn): the body is a comment
Reap ==
    /\ store.reaps < MaxMaintenance
    /\ store' = [store EXCEPT !.reaps = @ + 1]
    /\ UNCHANGED <<clock, table, calls, boot>>

\* DynamoDBStore.prototype.clearInterval(): stops the timer if there is one
ClearInterval ==
    /\ store.clears < MaxMaintenance
    /\ store' = [store EXCEPT !.clears = @ + 1, !.timer = FALSE]
    /\ UNCHANGED <<clock, table, calls, boot>>

\* the calls of get, set, touch and destroy that can be made now
StoreCalls ==
    {GetCall(sid) : sid \in Sids}
    \cup {SetCall(sid, sess) : sid \in Sids, sess \in Payloads}
    \cup {TouchCall(sid, sess) : sid \in Sids, sess \in Payloads}
    \cup {DestroyCall(sid, hasFn) : sid \in Sids, hasFn \in BOOLEAN}

\* a call of the store, whether or not the bootstrap has completed
BootCall ==
    /\ Len(calls) < MaxBootCalls
    /\ \E c \in StoreCalls : Make(c)

NextBoot ==
    \/ \E err \in {Null, BackendError} : DescribeTableDone(err)
    \/ \E err \in {Null, BackendError} : CreateTableDone(err)
    \/ Reap
    \/ ClearInterval
    \/ BootCall
    \/ \E i \in 1..Len(calls), err \in {Null, BackendError} : GetItemDone(i, err)
    \/ \E i \in 1..Len(calls), err \in {Null, BackendError} : PutItemDone(i, err)
    \/ \E i \in 1..Len(calls), err \in {Null, BackendError} : UpdateItemDone(i, err)
    \/ \E i \in 1..Len(calls), err \in {Null, BackendError} : DeleteItemDone(i, err)
    \/ Tick

SpecBoot == InitBoot /\ [][NextBoot]_vars

(***************************************************************************)
(* Concurrent calls on one session id: a call is made while others are     *)
(* pending, and the backend completes the requests in any order.           *)
(***************************************************************************)
MaxConcCalls == 3

\* the session id the concurrent calls share
ConcSid == <<"a">>

\* a record as touch leaves it on a key that had no item
PartialItem(key) == [id |-> AttrS(key), expires |-> AttrN(<<NumTok(oneDayInMilliseconds)>>)]

InitConc ==
    /\ clock = 0
    /\ table \in {[k \in Keys |-> IF k = prefix \o ConcSid THEN x ELSE Undefined] :
                      x \in {Undefined, PartialItem(prefix \o ConcSid)}}
    /\ calls = <<>>
    /\ store = NewStore(0)
    /\ boot = BootDone

ConcGet ==
    /\ Len(calls) < MaxConcCalls
    /\ Make(GetCall(ConcSid))

ConcSet(sess) ==
    /\ Len(calls) < MaxConcCalls
    /\ Make(SetCall(ConcSid, sess))

ConcTouch(sess) ==
    /\ Len(calls) < MaxConcCalls
    /\ Make(TouchCall(ConcSid, sess))

NextConc ==
    \/ ConcGet
    \/ \E sess \in Payloads : ConcSet(sess)
    \/ \E sess \in Payloads : ConcTouch(sess)
    \/ \E i \in 1..Len(calls), err \in {Null, BackendError} : GetItemDone(i, err)
    \/ \E i \in 1..Len(calls), err \in {Null, BackendError} : PutItemDone(i, err)
    \/ \E i \in 1..Len(calls), err \in {Null, BackendError} : UpdateItemDone(i, err)
    \/ \E i \in 1..Len(calls), err \in {Null, BackendError} : DeleteItemDone(i, err)
    \/ Tick

SpecConc == InitConc /\ [][NextConc]_vars

(***************************************************************************)
(* Calls on one session id with every kind of max-age, callbacks that      *)
(* raise, and a record with an empty sess.                                 *)
(***************************************************************************)
MaxEdgeCalls == 2

PZero == Obj(<<Cookie(<<<<"maxAge", Num(0)>>>>)>>)
PNegative == Obj(<<Cookie(<<<<"maxAge", Num(-1)>>>>)>>)
PNull == Obj(<<Cookie(<<<<"maxAge", Null>>>>)>>)
PString == Obj(<<Cookie(<<<<"maxAge", Str("60")>>>>)>>)

PNoCookie == Obj(<<<<"user", Str("carol")>>>>)
PCookieNull == Obj(<<<<"cookie", Null>>>>)

PFlags ==
    Obj(<<Cookie(<<<<"httpOnly", Bool(TRUE)>>>>), <<"roles", Arr(<<Str("admin")>>)>>>>)

EdgePayloads ==
    Payloads \cup {PZero, PNegative, PNull, PString, PNoCookie, PCookieNull, PFlags}

\* a record whose sess is the empty string
EmptySessItem(key) ==
    [id |-> AttrS(key), expires |-> AttrN(<<NumTok(oneDayInMilliseconds)>>),
     type |-> AttrS(<<"connect-session">>), sess |-> AttrS(<<>>)]

\* a record whose expires is the string "1"
StringExpiresItem(key) ==
    [id |-> AttrS(key), expires |-> Str("1"), sess |-> AttrS(Stringify(PNoAge))]

\* a record whose sess is not JSON and whose expires is a plain string, the
\* digit 1 between the white space U+2003 and U+000B
MalformedStringExpiresItem(key) ==
    [id |-> AttrS(key), expires |-> StrOfChars(<<"U+2003", "1", "">>), type |-> AttrS(<<"connect-session">>),
     sess |-> AttrS(<<Punct("{"), StrTok("user")>>)]

\* a record whose sess is not JSON and whose expires is a plain string that
\* writes a number below 2^-1075, which converts to 0
MalformedTinyExpiresItem(key) ==
    [id |-> AttrS(key), expires |-> Str("2.47032822920623272085e-324"),
     type |-> AttrS(<<"connect-session">>),
     sess |-> AttrS(<<Punct("{"), StrTok("user")>>)]

\* a record whose sess names the key user twice
RepeatedKeyItem(key) ==
    [id |-> AttrS(key), expires |-> AttrN(<<NumTok(oneDayInMilliseconds)>>),
     type |-> AttrS(<<"connect-session">>),
     sess |-> AttrS(<<Punct("{"), StrTok("user"), Punct(":"), StrTok("alice"),
                      Punct(","), StrTok("cookie"), Punct(":"), Punct("{"), Punct("}"),
                      Punct(","), StrTok("user"), Punct(":"), StrTok("bob"),
                      Punct("}")>>)]

InitEdge ==
    /\ clock = 0
    /\ table \in {[k \in Keys |-> IF k = prefix \o ConcSid THEN x ELSE Undefined] :
                      x \in {Undefined, EmptySessItem(prefix \o ConcSid),
                             PlainExpiresItem(prefix \o ConcSid),
                             StringExpiresItem(prefix \o ConcSid),
                             RepeatedKeyItem(prefix \o ConcSid),
                             MalformedItem(prefix \o ConcSid),
                             MalformedStringExpiresItem(prefix \o ConcSid),
                             MalformedTinyExpiresItem(prefix \o ConcSid)}}
    /\ calls = <<>>
    /\ store = NewStore(0)
    /\ boot = BootDone

\* the calls on the session id, each with a callback that returns or raises
EdgeCalls ==
    {[c EXCEPT !.throws = th] :
        c \in {GetCall(ConcSid)}
               \cup {SetCall(ConcSid, sess) : sess \in EdgePayloads}
               \cup {TouchCall(ConcSid, sess) : sess \in EdgePayloads}
               \cup {DestroyCall(ConcSid, hasFn) : hasFn \in BOOLEAN},
        th \in BOOLEAN}

\* a call is made once the calls before it have completed
EdgeCall ==
    /\ Len(calls) < MaxEdgeCalls
    /\ Completed = 1..Len(calls)
    /\ \E c \in EdgeCalls : Make(c)

NextEdge ==
    \/ EdgeCall
    \/ \E i \in 1..Len(calls), err \in {Null, BackendError} : GetItemDone(i, err)
    \/ \E i \in 1..Len(calls), err \in {Null, BackendError} : PutItemDone(i, err)
    \/ \E i \in 1..Len(calls), err \in {Null, BackendError} : UpdateItemDone(i, err)
    \/ \E i \in 1..Len(calls), err \in {Null, BackendError} : DeleteItemDone(i, err)
    \/ Tick

SpecEdge == InitEdge /\ [][NextEdge]_vars

(***************************************************************************)
(* Vocabulary of the properties.                                           *)
(***************************************************************************)
CallIds == 1..Len(calls)
Done(i) == calls[i].req = NoReq
\* call i had completed when call j was made
Before(i, j) == i \in calls[j].after
\* call i is op(sid, ..) and all its backend requests have succeeded
Succeeded(i, op) ==
    /\ calls[i].op = op
    /\ Done(i)
    /\ calls[i].raised = Null
    /\ \A n \in 1..Len(calls[i].outcomes) : calls[i].outcomes[n] = Null
\* the max-age a payload declares, undefined when it declares none
MaxAgeOf(sess) ==
    IF sess.k = "object" /\ Lookup(sess.f, "cookie").k = "object"
    THEN Lookup(Lookup(sess.f, "cookie").f, "maxAge")
    ELSE Undefined
\* every call on the session of i and j other than those in except completed
\* before i was made or was made after j completed
NothingBetween(i, j, except) ==
    \A m \in CallIds \ except :
        calls[m].sid = calls[i].sid => Before(m, i) \/ Before(j, m)

\* C1: after a successful set(s, p) with no numeric max-age, a get(s) made
\* within the one-day window with no other operation on s in between and a
\* successful read delivers (no error, p)
C1_SetThenGet ==
    \A i, j \in CallIds :
        ( /\ Succeeded(i, "set") /\ Succeeded(j, "get")
          /\ calls[j].sid = calls[i].sid
          /\ ~IsNumber(MaxAgeOf(calls[i].sess))
          /\ Before(i, j)
          /\ calls[j].now < calls[i].now + oneDayInMilliseconds
          /\ NothingBetween(i, j, {i, j}) )
        => calls[j].cb = <<Delivery(Null, calls[i].sess)>>

C1_Witness ==
    \E i, j \in CallIds :
        /\ Succeeded(i, "set") /\ Succeeded(j, "get")
        /\ calls[j].sid = calls[i].sid
        /\ ~IsNumber(MaxAgeOf(calls[i].sess))
        /\ Before(i, j)
        /\ calls[j].now > calls[i].now
        /\ NothingBetween(i, j, {i, j})
        /\ calls[j].cb = <<Delivery(Null, PNoAge)>>

\* C2: after a successful set(s, p) with numeric maxAge m at clock t, a get(s)
\* started at clock >= t + m with no other operation on s since the set
\* delivers (no error, null), and once it has, no record is left at prefix+s
C2_ExpiredGetIsNull ==
    \A i, j \in CallIds :
        ( /\ Succeeded(i, "set") /\ Succeeded(j, "get")
          /\ calls[j].sid = calls[i].sid
          /\ MaxAgeOf(calls[i].sess).k = "number"
          /\ Before(i, j)
          /\ calls[j].now >= calls[i].now + MaxAgeOf(calls[i].sess).n
          /\ \A m \in CallIds \ {i, j} : calls[m].sid = calls[i].sid => Before(m, i) )
        => /\ calls[j].cb = <<Delivery(Null, Null)>>
           /\ table[prefix \o calls[j].sid] = Undefined

\* C3: after a successful destroy(s), a get(s) with no set on s in between
\* delivers (no error, null), whether or not s was ever set; and a destroy
\* the backend serves without error delivers no error
C3_DestroyThenGet ==
    /\ \A i, j \in CallIds :
        ( /\ Succeeded(i, "destroy") /\ Succeeded(j, "get")
          /\ calls[j].sid = calls[i].sid
          /\ Before(i, j)
          /\ \A m \in CallIds \ {i, j} :
                (calls[m].sid = calls[i].sid /\ calls[m].op = "set")
                => Before(m, i) \/ Before(j, m) )
        => calls[j].cb = <<Delivery(Null, Null)>>
    /\ \A i \in CallIds :
        (Succeeded(i, "destroy") /\ calls[i].hasFn) => calls[i].cb[1].err = Null

\* a converted number that is an integer of at most nine digits, and its value
IsInteger(v) == v.kind = "fin" /\ v.F = <<>> /\ Len(v.I) <= 9
IntegerOf(v) == IF v.neg THEN 0 - DigitsValue(v.I) ELSE DigitsValue(v.I)
\* the number an expires attribute stands for: a plain number, or the number
\* written in an {N: ..} attribute
HasExpiry(item) ==
    LET e == Attr(item, "expires") IN
    IF IsAttrObject(e)
    THEN "N" \in DOMAIN e /\ Len(e.N) = 1 /\ e.N[1].t = "num"
    ELSE \/ e.k = "number"
         \/ e.k = "string" /\ CharsOf(e) # <<>> /\ IsInteger(CharsToNumber(CharsOf(e)))
ExpiryOf(item) ==
    LET e == Attr(item, "expires") IN
    IF IsAttrObject(e) THEN e.N[1].n
    ELSE IF e.k = "string" THEN IntegerOf(CharsToNumber(CharsOf(e))) ELSE e.n
\* the number an expires attribute stands for, as a converted number: the
\* number written in an {N: ..} attribute, or the number a plain value
\* converts to
ExpiryNumber(item) ==
    LET e == Attr(item, "expires") IN
    IF IsAttrObject(e)
    THEN IF "N" \in DOMAIN e /\ Len(e.N) = 1 /\ e.N[1].t = "num"
         THEN DecOfInt(e.N[1].n) ELSE DecNaN
    ELSE ToNumber(e)
\* the record is past its expiry at clock now
Expired(item, now) == LessEq(ExpiryNumber(item), now)
\* the sess attribute is a non-empty string
HasSessText(item) ==
    /\ "sess" \in DOMAIN item
    /\ IsAttrObject(item.sess)
    /\ "S" \in DOMAIN item.sess
    /\ item.sess.S # <<>>
\* p is a JSON value: serializing and parsing gives p back
Representable(p) == JSONParse(Stringify(p)) = [threw |-> FALSE, v |-> p]
\* in this step the backend request of call i completes
Completes(i, kind) == calls[i].req.kind = kind /\ calls'[i].req # calls[i].req
LastOutcome(c) == c.outcomes[Len(c.outcomes)]

\* C4: a successful touch(s, p') on an existing record changes only its
\* expires attribute and no other record
C4_TouchFrameStep ==
    \A i \in CallIds :
        LET key == prefix \o calls[i].sid IN
        ( /\ Completes(i, "updateItem")
          /\ LastOutcome(calls'[i]) = Null
          /\ table[key] # Undefined )
        => /\ \A k \in Keys \ {key} : table'[k] = table[k]
           /\ DOMAIN table'[key] = DOMAIN table[key] \cup {"expires"}
           /\ \A a \in DOMAIN table[key] \ {"expires"} : table'[key][a] = table[key][a]
           /\ table'[key].expires = calls[i].req.AttrValue

\* C4: a get(s) right after a successful touch(s, p') that followed a
\* successful set(s, p) delivers p, not p'
C4_GetAfterTouch ==
    \A i, t, j \in CallIds :
        ( /\ Succeeded(i, "set") /\ Succeeded(t, "touch") /\ Succeeded(j, "get")
          /\ calls[t].sid = calls[i].sid /\ calls[j].sid = calls[i].sid
          /\ Before(i, t) /\ Before(t, j)
          /\ Representable(calls[i].sess)
          /\ NothingBetween(i, j, {i, t, j}) )
        => calls[j].cb = <<Delivery(Null, calls[i].sess)>>

\* C4: touch on an existing record changes only expires (step property), so
\* that a get right after it delivers the payload of the last set
C4_TouchOnlyExpires == [][C4_TouchFrameStep]_vars /\ []C4_GetAfterTouch

C4_Witness ==
    \E i, t, j \in CallIds :
        /\ Succeeded(i, "set") /\ Succeeded(t, "touch") /\ Succeeded(j, "get")
        /\ calls[t].sid = calls[i].sid /\ calls[j].sid = calls[i].sid
        /\ Before(i, t) /\ Before(t, j)
        /\ calls[t].sess # calls[i].sess
        /\ table[prefix \o calls[i].sid].expires = calls[t].issued[1].AttrValue
        /\ table[prefix \o calls[i].sid].expires # calls[i].issued[1].Item.expires
        /\ calls[j].cb = <<Delivery(Null, calls[i].sess)>>

\* C5: a get that reads an unexpired record whose sess is a non-empty string
\* that is not JSON delivers one error and issues no delete, whether the
\* expires of the record is an {N: ..} attribute or a plain value
C5_MalformedSessIsError ==
    \A j \in CallIds :
        ( /\ calls[j].op = "get"
          /\ Len(calls[j].outcomes) >= 1 /\ calls[j].outcomes[1] = Null
          /\ calls[j].item # Undefined
          /\ ~Expired(calls[j].item, calls[j].now)
          /\ HasSessText(calls[j].item)
          /\ JSONParse(calls[j].item.sess.S).threw )
        => /\ Done(j)
           /\ Len(calls[j].cb) = 1
           /\ calls[j].cb[1].err.k = "error"
           /\ calls[j].cb[1].res = Undefined
           /\ calls[j].issued = <<GetParams(calls[j].sid)>>

\* the record with the string expires is read before its expiry, which
\* delivers the error and leaves it, and again at its expiry, which deletes it
C5_Witness ==
    \E j, d \in CallIds :
        /\ calls[j].op = "get" /\ Done(j)
        /\ calls[j].outcomes = <<Null>>
        /\ calls[j].item = MalformedStringExpiresItem(prefix \o calls[j].sid)
        /\ calls[j].now = 0
        /\ calls[j].cb = <<Delivery(Err("SyntaxError"), Undefined)>>
        /\ calls[j].issued = <<GetParams(calls[j].sid)>>
        /\ Succeeded(d, "get") /\ Before(j, d)
        /\ calls[d].item = calls[j].item
        /\ calls[d].now = 1
        /\ Len(calls[d].issued) = 2
        /\ calls[d].cb = <<Delivery(Null, Null)>>
        /\ table[prefix \o calls[j].sid] = Undefined

\* in this step a backend request of call i completes
CompletesAny(i) == calls'[i].outcomes # calls[i].outcomes

\* C6: a call whose backend request failed has delivered exactly that error
\* and no payload to its callback, or nothing when destroy got no callback,
\* and has issued no further request
C6_ErrorDelivered ==
    \A i \in CallIds :
        (Len(calls[i].outcomes) >= 1 /\ calls[i].outcomes[1] = BackendError)
        => /\ Done(i)
           /\ Len(calls[i].issued) = 1
           /\ IF calls[i].hasFn
              THEN /\ Len(calls[i].cb) = 1
                   /\ calls[i].cb[1].err = BackendError
                   /\ calls[i].cb[1].res \in {Null, Undefined}
              ELSE calls[i].cb = <<>>

\* C6: a failed backend request leaves the table as it was
C6_ErrorStep ==
    \A i \in CallIds :
        (CompletesAny(i) /\ LastOutcome(calls'[i]) = BackendError) => table' = table

\* C6: a backend error of get, set, touch or destroy reaches the callback as
\* it is, with no payload; without a callback destroy discards it
C6_BackendErrorPropagated == []C6_ErrorDelivered /\ [][C6_ErrorStep]_vars

C6_Witness ==
    /\ \E i \in CallIds : calls[i].op = "get" /\ calls[i].outcomes = <<BackendError>>
    /\ \E i \in CallIds : calls[i].op = "set" /\ calls[i].outcomes = <<BackendError>>
    /\ \E i \in CallIds :
          calls[i].op = "destroy" /\ ~calls[i].hasFn /\ calls[i].outcomes = <<BackendError>>

\* C7: a get whose read finds no item delivers (no error, null) and issues
\* nothing but the read
C7_NoItemDelivered ==
    \A j \in CallIds :
        ( /\ calls[j].op = "get"
          /\ Len(calls[j].outcomes) >= 1 /\ calls[j].outcomes[1] = Null
          /\ calls[j].item = Undefined )
        => /\ Done(j)
           /\ calls[j].cb = <<Delivery(Null, Null)>>
           /\ calls[j].issued = <<GetParams(calls[j].sid)>>

\* C7: the read that finds no item leaves the table as it was
C7_NoItemStep ==
    \A j \in CallIds :
        (Completes(j, "getItem") /\ calls'[j].outcomes = <<Null>>
            /\ calls'[j].item = Undefined)
        => table' = table

\* C7: get of an absent item delivers (no error, null), issues no delete or
\* write and leaves the table unchanged
C7_AbsentIsNull == []C7_NoItemDelivered /\ [][C7_NoItemStep]_vars

C7_Witness ==
    \E j \in CallIds :
        /\ calls[j].op = "get" /\ Done(j)
        /\ calls[j].outcomes = <<Null>> /\ calls[j].item = Undefined
        /\ calls[j].cb = <<Delivery(Null, Null)>>

\* C8: every backend request of a call with session id s addresses the key
\* prefix+s, so that no request addresses a key that does not start with the
\* prefix
C8_PrefixedKeys ==
    \A i \in CallIds : \A n \in 1..Len(calls[i].issued) :
        /\ KeyOf(calls[i].issued[n]) = prefix \o calls[i].sid
        /\ IsPrefixOf(prefix, KeyOf(calls[i].issued[n]))

SessionAttributes == {"id", "expires", "type", "sess"}

\* C9: a successful set(s, p) leaves at prefix+s exactly the attributes id,
\* expires, type and sess = serialize(p), whatever was there, and changes no
\* other key
C9_SetStep ==
    \A i \in CallIds :
        LET key == prefix \o calls[i].sid IN
        (Completes(i, "putItem") /\ LastOutcome(calls'[i]) = Null)
        => /\ DOMAIN table'[key] = SessionAttributes
           /\ table'[key].id = AttrS(key)
           /\ table'[key].type = AttrS(<<"connect-session">>)
           /\ table'[key].sess = AttrS(Stringify(calls[i].sess))
           /\ table'[key].expires = calls[i].req.Item.expires
           /\ DOMAIN table'[key].expires = {"N"}
           /\ \A k \in Keys \ {key} : table'[k] = table[k]

C9_SetReplacesRecord == [][C9_SetStep]_vars

C9_Witness ==
    \E g, i \in CallIds :
        /\ calls[g].op = "get" /\ Succeeded(i, "set") /\ Before(g, i)
        /\ calls[g].sid = calls[i].sid
        /\ calls[g].item = MalformedItem(prefix \o calls[i].sid)
        /\ \A m \in CallIds \ {g, i} : Before(m, g)
        /\ DOMAIN table[prefix \o calls[i].sid] = SessionAttributes

\* C10: set, touch and destroy issue one request; get issues one read and at
\* most one delete, the delete only for an item that was expired or had no
\* sess text; after a backend error nothing is issued again
C10_RequestCounts ==
    \A i \in CallIds :
        LET c == calls[i] IN
        /\ c.op = "set" => Len(c.issued) = 1 /\ c.issued[1].kind = "putItem"
        /\ c.op = "touch" => Len(c.issued) = 1 /\ c.issued[1].kind = "updateItem"
        /\ c.op = "destroy" => Len(c.issued) = 1 /\ c.issued[1].kind = "deleteItem"
        /\ c.op = "get" =>
              /\ c.issued[1].kind = "getItem"
              /\ Len(c.issued) <= 2
              /\ Len(c.issued) = 2 =>
                    /\ c.issued[2].kind = "deleteItem"
                    /\ c.outcomes[1] = Null
                    /\ c.item # Undefined
                    /\ Expired(c.item, c.now) \/ ~HasSessText(c.item)
        /\ Len(c.issued) = Len(c.outcomes) + (IF Done(i) THEN 0 ELSE 1)
        /\ \A n \in 1..Len(c.outcomes) : c.outcomes[n] = BackendError => n = Len(c.issued)

\* the number of requests named name among reqs
CountOf(reqs, name) == Cardinality({n \in 1..Len(reqs) : reqs[n] = name})

\* C11: the constructor has issued one describeTable; createTable is issued
\* at most once and only after describeTable completed with an error
C11_BootRequests ==
    /\ boot.issued[1] = "describeTable"
    /\ CountOf(boot.issued, "describeTable") = 1
    /\ CountOf(boot.issued, "createTable") <= 1
    /\ Len(boot.issued) = 1 + CountOf(boot.issued, "createTable")
    /\ CountOf(boot.issued, "createTable") = 1 =>
          Len(boot.outcomes) >= 1 /\ boot.outcomes[1] # Null
    /\ (Len(boot.outcomes) >= 1 /\ boot.outcomes[1] = Null) =>
          boot.issued = <<"describeTable">> /\ boot.pending = "none"

\* C11: a step of the bootstrap changes neither the fields of the store nor
\* the calls nor the items of the table, and delivers to no callback; the
\* outcome of createTable goes to the log
C11_BootStep ==
    boot' # boot =>
        /\ store' = store /\ calls' = calls /\ table' = table
        /\ (boot.pending = "createTable") =>
              boot'.logged = Append(boot.logged, ClientResult(LastOutcome(boot')))

\* C11: one describeTable without waiting, createTable at most once and only
\* after its error, the outcome only logged, calls possible before the end
C11_Bootstrap == []C11_BootRequests /\ [][C11_BootStep]_vars

C11_Witness ==
    /\ boot.issued = <<"describeTable", "createTable">>
    /\ boot.outcomes = <<BackendError, BackendError>>
    /\ boot.logged = <<Delivery(BackendError, Null)>>
    /\ \E i \in CallIds :
          /\ Succeeded(i, "set")
          /\ calls[i].at = <<1>>
          /\ table[prefix \o calls[i].sid] = calls[i].issued[1].Item

(***************************************************************************)
(* The writes the backend has applied, in the order it applied them.       *)
(***************************************************************************)
\* request n of call i has completed without error and writes the key
IsWrite(i, n, key) ==
    /\ n <= Len(calls[i].outcomes)
    /\ calls[i].outcomes[n] = Null
    /\ calls[i].issued[n].kind \in {"putItem", "updateItem", "deleteItem"}
    /\ KeyOf(calls[i].issued[n]) = key
Writes(key) == {w \in CallIds \X {1, 2} : IsWrite(w[1], w[2], key)}
ReqOf(w) == calls[w[1]].issued[w[2]]
StampOf(w) == calls[w[1]].at[w[2]]
\* the write of W that the backend applied last
LastOf(W) == CHOOSE w \in W : \A v \in W : StampOf(v) <= StampOf(w)
\* the puts and deletes among the writes of the key
Replacements(key) == {w \in Writes(key) : ReqOf(w).kind # "updateItem"}

\* C12: whenever the last put or delete applied to a key is the put of a
\* set, the record has the id, type and sess of that set, and the expires of
\* the last set or touch applied, in whatever order the calls were made
C12_LastWriterWins ==
    \A key \in Keys :
        (Replacements(key) # {} /\ ReqOf(LastOf(Replacements(key))).kind = "putItem")
        => LET w == LastOf(Replacements(key))
               last == LastOf(Writes(key))
           IN /\ DOMAIN table[key] = SessionAttributes
              /\ table[key].id = ReqOf(w).Item.id
              /\ table[key].type = ReqOf(w).Item.type
              /\ table[key].sess = AttrS(Stringify(calls[w[1]].sess))
              /\ table[key].expires =
                    IF ReqOf(last).kind = "updateItem" THEN ReqOf(last).AttrValue
                    ELSE ReqOf(w).Item.expires

C12_Witness ==
    /\ Len(calls) = 3
    /\ calls[1].op = "set" /\ calls[2].op = "set" /\ calls[3].op = "touch"
    /\ calls[1].sess # calls[2].sess
    /\ calls[2].after = {} /\ calls[3].after = {}
    /\ \A i \in CallIds : calls[i].outcomes = <<Null>>
    /\ calls[2].at[1] < calls[1].at[1] /\ calls[1].at[1] < calls[3].at[1]
    /\ calls[1].now # calls[3].now
    /\ table[prefix \o ConcSid].sess = AttrS(Stringify(calls[1].sess))
    /\ table[prefix \o ConcSid].expires = calls[3].issued[1].AttrValue

\* C13: the delete that get issues for an expired or sess-less record removes
\* no record that is, when the delete is applied, unexpired with a sess text
C13_DeleteStep ==
    \A g \in CallIds :
        LET key == prefix \o calls[g].sid IN
        ( /\ calls[g].op = "get"
          /\ Completes(g, "deleteItem")
          /\ LastOutcome(calls'[g]) = Null
          /\ table[key] # Undefined )
        => Expired(table[key], clock) \/ ~HasSessText(table[key])

C13_CascadeSparesLiveRecord == [][C13_DeleteStep]_vars

\* JSON.parse(JSON.stringify(p))
RoundTrip(p) == JSONParse(Stringify(p)).v

\* the set whose put is the last put or delete applied to the key before
\* completion number stamp, if that is a put
LastSetBefore(key, stamp) ==
    LET R == {w \in Replacements(key) : StampOf(w) < stamp} IN
    IF R # {} /\ ReqOf(LastOf(R)).kind = "putItem" THEN {LastOf(R)[1]} ELSE {}

\* C19: a get delivers a payload only if a set put it and no put or delete
\* was applied to the key between that put and the read, and the payload is
\* the one of that set
C19_PayloadFromLastSet ==
    \A j \in CallIds : \A n \in 1..Len(calls[j].cb) :
        (calls[j].op = "get" /\ calls[j].cb[n].res \notin {Null, Undefined})
        => \E i \in LastSetBefore(prefix \o calls[j].sid, calls[j].at[1]) :
              /\ calls[i].op = "set"
              /\ calls[j].cb[n].res = RoundTrip(calls[i].sess)
              /\ Representable(calls[i].sess) => calls[j].cb[n].res = calls[i].sess

\* C19: a get that reads a record of id and expires only issues the delete
\* of its key and then delivers (no error, null)
C19_PartialRecordRead ==
    \A j \in CallIds :
        ( /\ calls[j].op = "get"
          /\ Len(calls[j].outcomes) >= 1 /\ calls[j].outcomes[1] = Null
          /\ calls[j].item # Undefined
          /\ DOMAIN calls[j].item = {"id", "expires"} )
        => /\ Len(calls[j].issued) = 2
           /\ calls[j].issued[2] = [kind |-> "deleteItem", Key |-> prefix \o calls[j].sid]
           /\ calls[j].cb = IF Done(j) THEN <<Delivery(Null, Null)>> ELSE <<>>

\* C19: a successful touch on a key without item leaves a record of id and
\* expires only, and the delete of a get removes the record of its key
C19_TouchStep ==
    \A i \in CallIds :
        LET key == prefix \o calls[i].sid IN
        /\ ( /\ Completes(i, "updateItem")
             /\ LastOutcome(calls'[i]) = Null
             /\ table[key] = Undefined )
           => table'[key] = [id |-> AttrS(key), expires |-> calls[i].req.AttrValue]
        /\ ( /\ calls[i].op = "get"
             /\ Completes(i, "deleteItem")
             /\ LastOutcome(calls'[i]) = Null )
           => table'[key] = Undefined

\* C19: get delivers only the payload of the last set applied with no delete
\* since; a touch on an absent session gives a record that get deletes and
\* answers with null
C19_OnlySetPayloads ==
    /\ []C19_PayloadFromLastSet
    /\ []C19_PartialRecordRead
    /\ [][C19_TouchStep]_vars

C19_Witness ==
    \E t, j, g \in CallIds :
        /\ Succeeded(t, "touch") /\ Succeeded(j, "get") /\ Succeeded(g, "get")
        /\ Before(t, j) /\ Before(j, g)
        /\ calls[j].item = [id |-> AttrS(prefix \o ConcSid),
                            expires |-> calls[t].issued[1].AttrValue]
        /\ calls[j].cb = <<Delivery(Null, Null)>>
        /\ calls[g].item = Undefined
        /\ table[prefix \o ConcSid] = Undefined

\* C14: a get that reads an unexpired record whose sess is missing or empty
\* issues the delete of prefix+s and, once that has completed, delivers
\* (no error, null) and nothing else
C14_EmptySessIsNull ==
    \A j \in CallIds :
        ( /\ calls[j].op = "get"
          /\ Len(calls[j].outcomes) >= 1 /\ calls[j].outcomes[1] = Null
          /\ calls[j].item # Undefined
          /\ ~Expired(calls[j].item, calls[j].now)
          /\ ~HasSessText(calls[j].item) )
        => /\ Len(calls[j].issued) = 2
           /\ calls[j].issued[2] = [kind |-> "deleteItem", Key |-> prefix \o calls[j].sid]
           /\ calls[j].cb = IF Done(j) THEN <<Delivery(Null, Null)>> ELSE <<>>

C14_Witness ==
    /\ \E j \in CallIds :
          /\ Succeeded(j, "get")
          /\ calls[j].item = EmptySessItem(prefix \o ConcSid)
          /\ calls[j].cb = <<Delivery(Null, Null)>>
    /\ \E i \in CallIds :
          /\ Succeeded(i, "touch") /\ calls[i].sess = PAge
          /\ "sess" \notin DOMAIN table[prefix \o ConcSid]

\* the text of a number as both JSON.stringify and toString write it
Decimal(n) == <<NumTok(n)>>

\* C15: every set and touch computes an expires, whatever the payload: it
\* issues its request, and that request stores now + maxAge for a numeric
\* max-age, also 0 and negative ones, and now + 86400000 when the max-age is
\* absent, null or not a number, with now the clock at the call
C15_ExpiresRule ==
    \A i \in CallIds :
        calls[i].op \in {"set", "touch"} =>
            /\ calls[i].raised = Null
            /\ Len(calls[i].issued) = 1
            /\ LET c == calls[i]
                   m == MaxAgeOf(c.sess)
                   stored == IF c.op = "set" THEN c.issued[1].Item.expires
                             ELSE c.issued[1].AttrValue
               IN /\ m.k = "number" => stored = AttrN(Decimal(c.now + m.n))
                  /\ m.k \in {"undefined", "null", "string"} =>
                        stored = AttrN(Decimal(c.now + 86400000))
                  /\ m.k = "NaN" =>
                        stored = AttrN(<<LitTok(IF c.op = "set" THEN "null" ELSE "NaN")>>)

\* C16: for a record whose expires is the {N: e} that set or touch stored,
\* the expiry test of get is true exactly when now >= e, and get then issues
\* its delete
C16_ExpiryTestUsesStoredNumber ==
    \A j \in CallIds :
        ( /\ calls[j].op = "get"
          /\ Len(calls[j].outcomes) >= 1 /\ calls[j].outcomes[1] = Null
          /\ calls[j].item # Undefined
          /\ HasExpiry(calls[j].item)
          /\ IsAttrObject(calls[j].item.expires) )
        => /\ ExpiredTest(calls[j].item, calls[j].now)
                <=> calls[j].now >= ExpiryOf(calls[j].item)
           /\ calls[j].now >= ExpiryOf(calls[j].item) => Len(calls[j].issued) = 2

\* C17: a get that has issued its delete delivers nothing until the delete
\* has completed, and then (no error, null) whether the delete failed or not
C17_CascadeThenNull ==
    \A j \in CallIds :
        (calls[j].op = "get" /\ Len(calls[j].issued) = 2)
        => calls[j].cb = IF Done(j) THEN <<Delivery(Null, Null)>> ELSE <<>>

C17_Witness ==
    \E j \in CallIds :
        /\ calls[j].op = "get" /\ Done(j)
        /\ calls[j].outcomes = <<Null, BackendError>>
        /\ calls[j].cb = <<Delivery(Null, Null)>>
        /\ table[prefix \o calls[j].sid] = calls[j].item

\* C18: a call that has issued its requests and seen them complete has
\* invoked the callback it was given exactly once, also when the callback
\* raises
C18_CallbackOnce ==
    \A i \in CallIds :
        calls[i].raised = Null =>
            /\ (Done(i) /\ calls[i].hasFn) => Len(calls[i].cb) = 1
            /\ Len(calls[i].cb) <= 1

\* C20: an item leaves the table only in the completion of a deleteItem that
\* destroy or the handler of get issued for its key
C20_RemovalStep ==
    \A key \in Keys :
        (table[key] # Undefined /\ table'[key] = Undefined)
        => \E i \in CallIds :
              /\ calls[i].op \in {"destroy", "get"}
              /\ Completes(i, "deleteItem")
              /\ calls[i].req.Key = key

\* C20: reap() and clearInterval() issue no request and change neither the
\* table nor the fields of the store
C20_MaintenanceStep ==
    store' # store =>
        /\ table' = table /\ calls' = calls /\ boot' = boot
        /\ store' \in {[store EXCEPT !.reaps = @ + 1], [store EXCEPT !.clears = @ + 1]}

\* C20: no timer is started, whatever options.reapInterval is
C20_NoTimer == store.reapInterval = 0 /\ ~store.timer

\* C20: records are removed only by destroy and by the delete of get; set,
\* touch, reap and clearInterval remove nothing and no timer ever runs
C20_OnlyDeletesRemove ==
    /\ []C20_NoTimer
    /\ [][C20_RemovalStep]_vars
    /\ [][C20_MaintenanceStep]_vars

C20_Witness ==
    /\ clock = 1
    /\ table[prefix \o <<"a">>] = PlainExpiresItem(prefix \o <<"a">>)
    /\ Expired(table[prefix \o <<"a">>], clock)
    /\ store.optReapInterval > 0 /\ store.reaps = 1 /\ store.clears = 1
    /\ boot.pending = "none"
    /\ \E i \in CallIds : Succeeded(i, "touch") /\ calls[i].now = 1

====
